---- MODULE Spec2Model ----
(***************************************************************************)
(* The Thorchain client facade of xchainpy (xchainpy_thorchain/client.py)  *)
(* as a state machine: the Client object's fields, the node client it      *)
(* holds, and the coroutines of transfer() suspended at their awaits.      *)
(***************************************************************************)
EXTENDS Naturals, Sequences, FiniteSets, TLC

VARIABLES
    phrase,       \* Client.phrase
    address,      \* Client.address ('' when not cached)
    network,      \* Client.network
    private_key,  \* Client.private_key (None when not cached)
    client_url,   \* Client.client_url
    thor_client,  \* Client.thor_client, the CosmosSDKClient instance in use
    sdk,          \* per CosmosSDKClient instance: its pending transaction
    call,         \* per transfer() coroutine: where it is suspended and its locals
    last          \* the last call made on the client and what it returned or raised

vars == <<phrase, address, network, private_key, client_url, thor_client, sdk, call, last>>

-----------------------------------------------------------------------------
(* Bounds of the model. *)

\* transfer() coroutines that may be in flight on the one client
MaxCalls == 2
\* longest balance list the node reports
MaxBalances == 2

-----------------------------------------------------------------------------
(* Python values. *)

None == "None"

\* Python truthiness of the scalar values used here: None, '' and {} are falsy
Falsy(x) == x \in {None, "", "{}"}

NoErr == [type |-> "", msg |-> ""]

\* Exception(x): the message is str(x); the type of a wrapped error is lost
Exception(msg) == [type |-> "Exception", msg |-> msg]

KeyError(k) == [type |-> "KeyError", msg |-> "'" \o k \o "'"]

NameError(n) == [type |-> "NameError", msg |-> "name '" \o n \o "' is not defined"]

\* an error raised by the node or the transport underneath CosmosSDKClient
NodeError == [type |-> "ClientError", msg |-> "node unreachable"]

PhraseNotSet == Exception("Phrase not set")

-----------------------------------------------------------------------------
(* Inputs. *)

ValidPhrases == {"p1", "p2"}

\* '' and a phrase with a bad checksum both fail validation
Phrases == ValidPhrases \cup {"", "bad"}

Networks == {"testnet", "mainnet", "stagenet", ""}

get_default_client_url ==
    [testnet |-> [node |-> "https://testnet.thornode.thorchain.info",
                  rpc  |-> "https://testnet.rpc.thorchain.info"],
     mainnet |-> [node |-> "http://138.68.125.107:1317",
                  rpc  |-> "http://138.68.125.107:26657"]]

\* a caller-supplied client url, in the shape of the default one
CustomUrl ==
    [testnet |-> [node |-> "https://testnet.node.example",
                  rpc  |-> "https://testnet.rpc.example"],
     mainnet |-> [node |-> "https://node.example",
                  rpc  |-> "https://rpc.example"]]

ClientUrls == {get_default_client_url, CustomUrl}

\* what the node may hold for an address
Coins == {[denom |-> "rune", amount |-> "100"],
          [denom |-> "btc", amount |-> "5"],
          [denom |-> "rune", amount |-> "7"]}

BalanceLists == UNION {[1 .. n -> Coins] : n \in 0 .. MaxBalances}

\* the asset argument of get_balance: absent, empty, or a denomination
Assets == {None, "", "rune", "bnb"}

\* the address argument of get_balance: absent or given
Addresses == {None, "tthor1bob"}

TxIds == {"A1", "B2"}

\* what txs_hash_get may answer for a transaction id: nothing, an empty
\* object, or the record of the transaction
TxResults(tx_id) == {None, "{}", "{txhash: " \o tx_id \o "}"}

Transfers == {[recipient |-> "tthor1bob", amount |-> 1, denom |-> "rune"],
              [recipient |-> "tthor1carol", amount |-> 2, denom |-> "rune"]}

-----------------------------------------------------------------------------
(* Collaborators that live outside client.py. *)

\* xchainpy_crypto.validate_phrase: the BIP39 checksum test
validate_phrase(p) == p \in ValidPhrases

\* CosmosSDKClient.seed_to_privkey: deterministic, one key per phrase
seed_to_privkey(ph) == "key(" \o ph \o ")"

\* CosmosSDKClient.privkey_to_address: bech32 of the public key under the
\* prefix the instance was constructed with
privkey_to_address(tc, key) == tc.prefix \o "1" \o key

\* the pending transaction of a CosmosSDKClient instance on which
\* make_transaction has not run
NoTx == [owner |-> 0, msgs |-> <<>>]

\* CosmosSDKClient.make_transaction, once the account metadata has arrived:
\* the instance starts a new pending transaction for the caller
make_transaction(c) == [owner |-> c, msgs |-> <<>>]

\* CosmosSDKClient.add_transfer: one more message on the pending transaction
add_transfer(tx, recipient, amount, denom) ==
    [tx EXCEPT !.msgs = Append(@, [recipient |-> recipient, amount |-> amount,
                                   denom |-> denom])]

\* CosmosSDKClient.get_pushable: the pending transaction, signed and encoded
get_pushable(tx) == tx

-----------------------------------------------------------------------------
(* Client: the synchronous helpers. *)

get_network(net) == net

get_prefix(netowrk, net) ==
    IF ~Falsy(netowrk)
    THEN \* the body reads `network`, which is not a name in scope
         [err |-> NameError("network"), ret |-> None]
    ELSE [err |-> NoErr, ret |-> IF net = "testnet" THEN "tthor" ELSE "thor"]

get_chain_id == "thorchain"

CosmosSDKClient(id, server, prefix, chain_id) ==
    [id |-> id, server |-> server, prefix |-> prefix, chain_id |-> chain_id]

\* the instance a failed construction leaves the caller without
NoClient == CosmosSDKClient(0, "", "", "")

get_new_thor_client(id, net) ==
    IF get_network(net) \notin DOMAIN get_default_client_url
    THEN [err |-> KeyError(net), ret |-> NoClient]
    ELSE [err |-> NoErr,
          ret |-> CosmosSDKClient(id, get_default_client_url[get_network(net)].node,
                                  get_prefix(None, net).ret, get_chain_id)]

\* get_private_key without its test of the phrase
get_private_key_unchecked(pk, ph) ==
    IF Falsy(pk)
    THEN [err |-> NoErr, private_key |-> seed_to_privkey(ph), ret |-> seed_to_privkey(ph)]
    ELSE [err |-> NoErr, private_key |-> pk, ret |-> pk]

get_private_key(pk, ph) ==
    IF Falsy(pk)
    THEN IF Falsy(ph)
         THEN [err |-> PhraseNotSet, private_key |-> pk, ret |-> None]
         ELSE [err |-> NoErr, private_key |-> seed_to_privkey(ph),
               ret |-> seed_to_privkey(ph)]
    ELSE [err |-> NoErr, private_key |-> pk, ret |-> pk]

get_address(ad, pk, ph, tc) ==
    IF Falsy(ad)
    THEN LET k == get_private_key(pk, ph) IN
         IF k.err # NoErr
         THEN [err |-> k.err, address |-> ad, private_key |-> k.private_key,
               ret |-> None]
         ELSE LET a == privkey_to_address(tc, k.ret) IN
              IF Falsy(a)
              THEN [err |-> Exception("Address has to be set."), address |-> a,
                    private_key |-> k.private_key, ret |-> None]
              ELSE [err |-> NoErr, address |-> a, private_key |-> k.private_key,
                    ret |-> a]
    ELSE [err |-> NoErr, address |-> ad, private_key |-> pk, ret |-> ad]

-----------------------------------------------------------------------------
(* What the last call did. *)

NoNode == [err |-> NoErr, res |-> None, list |-> <<>>]

Outcome(op, arg, err, ret) ==
    [op |-> op, arg |-> arg, arg2 |-> None, err |-> err, ret |-> ret,
     list |-> <<>>, sent |-> FALSE, node |-> NoNode]

-----------------------------------------------------------------------------
(* CosmosSDKClient instances. *)

Calls == 1 .. MaxCalls

Ids == 0 .. MaxCalls

\* the instances a suspended make_transaction still runs on
HeldBy(cs) == {call[c].inst : c \in {d \in cs : call[d].pc = "make"}}

Held == HeldBy(Calls)

\* the identity of a newly constructed instance: one no live reference names
FreshId == CHOOSE i \in Ids \ Held : \A j \in Ids \ Held : i <= j

\* an instance that neither the client nor a suspended coroutine refers to
\* is gone, and its pending transaction with it
Collect(s, live) == [i \in Ids |-> IF i \in live THEN s[i] ELSE NoTx]

Idle == [pc |-> "idle", inst |-> 0, same |-> TRUE,
         args |-> [recipient |-> "", amount |-> 0, denom |-> ""],
         msg |-> NoTx]

-----------------------------------------------------------------------------
(* Client: the state-changing methods. *)

purge_client ==
    /\ phrase' = ""
    /\ address' = ""
    /\ private_key' = None
    /\ last' = Outcome("purge_client", None, NoErr, None)
    /\ UNCHANGED <<network, client_url, thor_client, sdk, call>>

set_network(n) ==
    IF Falsy(n)
    THEN /\ last' = Outcome("set_network", n, Exception("Network must be provided"), None)
         /\ UNCHANGED <<phrase, address, network, private_key, client_url,
                        thor_client, sdk, call>>
    ELSE LET c == get_new_thor_client(FreshId, n) IN
         /\ network' = n
         /\ IF c.err # NoErr
            THEN /\ last' = Outcome("set_network", n, c.err, None)
                 /\ UNCHANGED <<thor_client, sdk, address>>
            ELSE /\ thor_client' = c.ret
                 /\ sdk' = Collect([sdk EXCEPT ![c.ret.id] = NoTx], Held \cup {c.ret.id})
                 /\ address' = ""
                 /\ last' = Outcome("set_network", n, NoErr, None)
         /\ UNCHANGED <<phrase, private_key, client_url, call>>

\* set_phrase storing the phrase before it validates it
set_phrase_store_first(p) ==
    LET changed == Falsy(phrase) \/ phrase # p
        r == get_address(IF changed THEN "" ELSE address,
                         IF changed THEN None ELSE private_key, p, thor_client)
    IN
    /\ phrase' = p
    /\ private_key' = IF changed /\ ~validate_phrase(p) THEN None ELSE r.private_key
    /\ address' = IF changed /\ ~validate_phrase(p) THEN "" ELSE r.address
    /\ last' = IF changed /\ ~validate_phrase(p)
               THEN [Outcome("set_phrase", p, Exception("invalid phrase"), None)
                        EXCEPT !.arg2 = phrase]
               ELSE [Outcome("set_phrase", p, r.err, r.ret) EXCEPT !.arg2 = phrase]
    /\ UNCHANGED <<network, client_url, thor_client, sdk, call>>

\* set_phrase that stores the phrase and leaves the derivation to later calls
set_phrase_lazy(p) ==
    LET changed == Falsy(phrase) \/ phrase # p IN
    IF changed /\ ~validate_phrase(p)
    THEN /\ last' = [Outcome("set_phrase", p, Exception("invalid phrase"), None)
                        EXCEPT !.arg2 = phrase]
         /\ UNCHANGED <<phrase, address, network, private_key, client_url,
                        thor_client, sdk, call>>
    ELSE /\ phrase' = p
         /\ private_key' = IF changed THEN None ELSE private_key
         /\ address' = IF changed THEN "" ELSE address
         /\ last' = [Outcome("set_phrase", p, NoErr, None) EXCEPT !.arg2 = phrase]
         /\ UNCHANGED <<network, client_url, thor_client, sdk, call>>

set_phrase(p) ==
    LET changed == Falsy(phrase) \/ phrase # p
        ph == IF changed THEN p ELSE phrase
        pk == IF changed THEN None ELSE private_key
        ad == IF changed THEN "" ELSE address
        r  == get_address(ad, pk, ph, thor_client)
    IN
    IF changed /\ ~validate_phrase(p)
    THEN /\ last' = [Outcome("set_phrase", p, Exception("invalid phrase"), None)
                        EXCEPT !.arg2 = phrase]
         /\ UNCHANGED <<phrase, address, network, private_key, client_url,
                        thor_client, sdk, call>>
    ELSE /\ phrase' = ph
         /\ private_key' = r.private_key
         /\ address' = r.address
         /\ last' = [Outcome("set_phrase", p, r.err, r.ret) EXCEPT !.arg2 = phrase]
         /\ UNCHANGED <<network, client_url, thor_client, sdk, call>>

set_client_url(u) ==
    LET c == get_new_thor_client(FreshId, network) IN
    /\ client_url' = u
    /\ IF c.err # NoErr
       THEN /\ last' = Outcome("set_client_url", None, c.err, None)
            /\ UNCHANGED <<thor_client, sdk>>
       ELSE /\ thor_client' = c.ret
            /\ sdk' = Collect([sdk EXCEPT ![c.ret.id] = NoTx], Held \cup {c.ret.id})
            /\ last' = Outcome("set_client_url", None, NoErr, None)
    /\ UNCHANGED <<phrase, address, network, private_key, call>>

call_get_prefix(n) ==
    LET r == get_prefix(n, network) IN
    /\ last' = Outcome("get_prefix", n, r.err, r.ret)
    /\ UNCHANGED <<phrase, address, network, private_key, client_url,
                   thor_client, sdk, call>>

call_get_private_key ==
    LET r == get_private_key(private_key, phrase) IN
    /\ private_key' = r.private_key
    /\ last' = Outcome("get_private_key", None, r.err, r.ret)
    /\ UNCHANGED <<phrase, address, network, client_url, thor_client, sdk, call>>

call_get_address ==
    LET r == get_address(address, private_key, phrase, thor_client) IN
    /\ private_key' = r.private_key
    /\ address' = r.address
    /\ last' = Outcome("get_address", None, r.err, r.ret)
    /\ UNCHANGED <<phrase, network, client_url, thor_client, sdk, call>>

-----------------------------------------------------------------------------
(* Client: the queries sent to the node.  What the node answers is an input. *)
(* After its await a query reads only its own locals, so the call is one   *)
(* step: nothing another call does while it is suspended can change it.    *)

\* get_balance without its test of the asset
balances_unfiltered(response, asset, i) ==
    [j \in 1 .. (Len(response) + 1 - i) |->
        [asset |-> response[j + i - 1].denom, amount |-> response[j + i - 1].amount]]

\* the loop of get_balance over response["result"], from entry i on
RECURSIVE balances_from(_, _, _)
balances_from(response, asset, i) ==
    IF i > Len(response)
    THEN <<>>
    ELSE LET balance == response[i] IN
         \* denom and asset are strings, on which str() changes nothing
         IF Falsy(asset) \/ balance.denom = asset
         THEN <<[asset |-> balance.denom, amount |-> balance.amount]>>
                  \o balances_from(response, asset, i + 1)
         ELSE balances_from(response, asset, i + 1)

get_balance(a, asset, node) ==
    LET r == IF Falsy(a)
             THEN get_address(address, private_key, phrase, thor_client)
             ELSE [err |-> NoErr, address |-> address, private_key |-> private_key,
                   ret |-> a]
        o == [Outcome("get_balance", a, r.err, r.ret) EXCEPT !.arg2 = asset]
    IN
    /\ private_key' = r.private_key
    /\ address' = r.address
    /\ last' = IF r.err # NoErr
               THEN o
               ELSE IF node.err # NoErr
               THEN [o EXCEPT !.sent = TRUE, !.node = node, !.err = node.err]
               ELSE [o EXCEPT !.sent = TRUE, !.node = node,
                              !.list = balances_from(node.list, asset, 1)]
    /\ UNCHANGED <<phrase, network, client_url, thor_client, sdk, call>>

\* get_transaction_data without its test of an empty answer
get_transaction_data_unchecked(tx_id, node) ==
    LET r == IF node.err # NoErr
             THEN [err |-> Exception(node.err.msg), ret |-> None]
             ELSE [err |-> NoErr, ret |-> node.res]
    IN
    /\ last' = [Outcome("get_transaction_data", tx_id, r.err, r.ret)
                   EXCEPT !.sent = TRUE, !.node = node]
    /\ UNCHANGED <<phrase, address, network, private_key, client_url,
                   thor_client, sdk, call>>

get_transaction_data(tx_id, node) ==
    LET tried == IF node.err # NoErr
                 THEN [err |-> node.err, ret |-> None]
                 ELSE IF Falsy(node.res)
                 THEN [err |-> Exception("transaction not found"), ret |-> None]
                 ELSE [err |-> NoErr, ret |-> node.res]
        \* except Exception as err: raise Exception(err)
        r == IF tried.err # NoErr
             THEN [err |-> Exception(tried.err.msg), ret |-> None]
             ELSE tried
    IN
    /\ last' = [Outcome("get_transaction_data", tx_id, r.err, r.ret)
                   EXCEPT !.sent = TRUE, !.node = node]
    /\ UNCHANGED <<phrase, address, network, private_key, client_url,
                   thor_client, sdk, call>>

-----------------------------------------------------------------------------
(* Client.transfer, one action per stretch between two awaits. *)

\* from the call to the await inside make_transaction: the method is looked
\* up on the instance in use, then its arguments are evaluated
transfer_start(c, t) ==
    /\ call[c].pc = "idle"
    /\ LET k == get_private_key(private_key, phrase)
           r == IF k.err # NoErr
                THEN [err |-> k.err, address |-> address,
                      private_key |-> k.private_key, ret |-> None]
                ELSE get_address(address, k.private_key, phrase, thor_client)
       IN
       /\ private_key' = r.private_key
       /\ address' = r.address
       /\ IF r.err # NoErr
          THEN /\ last' = Outcome("transfer", None, r.err, None)
               /\ UNCHANGED call
          ELSE /\ last' = Outcome("transfer", None, NoErr, "awaiting")
               /\ call' = [call EXCEPT ![c] = [Idle EXCEPT !.pc = "make",
                                  !.inst = thor_client.id, !.args = t]]
    /\ UNCHANGED <<phrase, network, client_url, thor_client, sdk>>

\* make_transaction returns (or raises); add_transfer, get_pushable and the
\* call of do_transfer follow without an await, each on self.thor_client
transfer_resume(c, ok) ==
    /\ call[c].pc = "make"
    /\ IF ~ok
       THEN /\ last' = Outcome("transfer", None, NodeError, None)
            /\ call' = [call EXCEPT ![c] = Idle]
            /\ sdk' = Collect(sdk, {thor_client.id} \cup HeldBy(Calls \ {c}))
       ELSE LET made == [sdk EXCEPT ![call[c].inst] = make_transaction(c)]
                now == thor_client.id
                added == [made EXCEPT ![now] = add_transfer(@, call[c].args.recipient,
                                 call[c].args.amount, call[c].args.denom)]
                Msg == get_pushable(added[now])
            IN
            /\ sdk' = Collect(added, {now} \cup HeldBy(Calls \ {c}))
            /\ call' = [call EXCEPT ![c].pc = "broadcast", ![c].msg = Msg,
                                    ![c].same = (call[c].inst = now),
                                    ![c].inst = 0]
            /\ last' = Outcome("transfer", None, NoErr, "awaiting")
    /\ UNCHANGED <<phrase, address, network, private_key, client_url, thor_client>>

\* do_transfer returns the hash the node answered, or raises
transfer_finish(c, ok) ==
    /\ call[c].pc = "broadcast"
    /\ last' = IF ok
               THEN Outcome("transfer", None, NoErr, "txhash")
               ELSE Outcome("transfer", None, NodeError, None)
    /\ call' = [call EXCEPT ![c] = Idle]
    /\ UNCHANGED <<phrase, address, network, private_key, client_url,
                   thor_client, sdk>>

-----------------------------------------------------------------------------
(* Construction: Client(phrase, network, client_url). *)

\* the fields after __init__ has run to its end; a network without default
\* urls and an invalid phrase make __init__ raise, and leave no client
Init ==
    \E ph \in ValidPhrases \cup {""}, n \in DOMAIN get_default_client_url,
       given \in BOOLEAN :
        LET c == get_new_thor_client(0, n).ret
            r == IF Falsy(ph)
                 THEN [err |-> NoErr, address |-> "", private_key |-> None, ret |-> None]
                 ELSE get_address("", None, ph, c)
        IN
        /\ network = n
        /\ client_url = IF given THEN CustomUrl ELSE get_default_client_url
        /\ thor_client = c
        /\ phrase = ph
        /\ private_key = r.private_key
        /\ address = r.address
        /\ sdk = [i \in Ids |-> NoTx]
        /\ call = [i \in Calls |-> Idle]
        /\ last = Outcome("__init__", ph, NoErr, None)

Next ==
    \/ purge_client
    \/ \E n \in Networks : set_network(n)
    \/ \E p \in Phrases : set_phrase(p)
    \/ \E u \in ClientUrls : set_client_url(u)
    \/ \E n \in {None, "testnet", "mainnet"} : call_get_prefix(n)
    \/ call_get_private_key
    \/ call_get_address
    \/ \E a \in Addresses, asset \in Assets, l \in BalanceLists :
           get_balance(a, asset, [NoNode EXCEPT !.list = l])
    \/ \E a \in Addresses, asset \in Assets :
           get_balance(a, asset, [NoNode EXCEPT !.err = NodeError])
    \/ \E t \in TxIds : \E res \in TxResults(t) :
           get_transaction_data(t, [NoNode EXCEPT !.res = res])
    \/ \E t \in TxIds : get_transaction_data(t, [NoNode EXCEPT !.err = NodeError])

Spec == Init /\ [][Next]_vars

\* the client with transfer() coroutines in flight
NextTransfer ==
    \/ \E c \in Calls, t \in Transfers : transfer_start(c, t)
    \/ \E c \in Calls, ok \in BOOLEAN : transfer_resume(c, ok)
    \/ \E c \in Calls, ok \in BOOLEAN : transfer_finish(c, ok)
    \/ \E n \in DOMAIN get_default_client_url : set_network(n)
    \/ \E u \in ClientUrls : set_client_url(u)

SpecTransfer == Init /\ [][NextTransfer]_vars

-----------------------------------------------------------------------------
(* The properties of the client. *)

PrefixOf(n) == IF n = "testnet" THEN "tthor" ELSE "thor"

\* C1: set_phrase with a phrase that fails validation raises the
\* invalid-phrase error and leaves the stored phrase, the cached private key
\* and the cached address as they were.
C1_InvalidPhraseRejected ==
    [][(last'.op = "set_phrase" /\ ~validate_phrase(last'.arg))
          => /\ last'.err = Exception("invalid phrase")
             /\ UNCHANGED <<phrase, private_key, address>>]_vars

\* an invalid phrase was refused on a client that holds a phrase, a key and
\* an address
C1_Witness ==
    /\ last.op = "set_phrase" /\ last.arg \in {"", "bad"}
    /\ last.err = Exception("invalid phrase")
    /\ ~Falsy(phrase) /\ ~Falsy(private_key) /\ ~Falsy(address)

\* C2: after construction with a client url, or after set_client_url(u), the
\* node client is bound to the url the caller supplied.
C2_UrlOverrides ==
    (last.op \in {"__init__", "set_client_url"} /\ last.err = NoErr)
        => thor_client.server = client_url[network].node

\* C3: set_network(n) with a non-empty n rebuilds the node client for n and
\* clears the cached address.
C3_SetNetworkResets ==
    (last.op = "set_network" /\ ~Falsy(last.arg))
        => /\ last.err = NoErr
           /\ network = last.arg
           /\ thor_client.prefix = PrefixOf(last.arg)
           /\ Falsy(address)

\* C4 as stated: right after a successful set_phrase(p), p not the stored
\* phrase, the phrase is p and the cached key and address are cleared.
C4_SetPhraseLeavesPhraseSet ==
    (last.op = "set_phrase" /\ last.err = NoErr /\ last.arg # last.arg2)
        => /\ phrase = last.arg
           /\ Falsy(private_key)
           /\ Falsy(address)

\* C4 as amended: right after a successful set_phrase(p), p not the stored
\* phrase, the phrase is p and the key and the address derived from p are
\* already cached, the address being what set_phrase returned; a later
\* get_address returns the cached address.
C4_SetPhraseResolves ==
    /\ (last.op = "set_phrase" /\ last.err = NoErr /\ last.arg # last.arg2)
          => /\ phrase = last.arg
             /\ private_key = seed_to_privkey(last.arg)
             /\ address = privkey_to_address(thor_client, seed_to_privkey(last.arg))
             /\ last.ret = address
    /\ (last.op = "get_address" /\ last.err = NoErr) => last.ret = address

\* set_phrase replaced the stored phrase by another one
C4_Witness ==
    /\ last.op = "set_phrase" /\ last.err = NoErr
    /\ last.arg = "p2" /\ last.arg2 = "p1"
    /\ phrase = "p2" /\ ~Falsy(address)

C6_TransactionData ==
    last.op = "get_transaction_data"
        => /\ last.node.err # NoErr => last.err # NoErr
           /\ (last.node.err = NoErr /\ Falsy(last.node.res))
                 => last.err.msg = "transaction not found"
           /\ (last.node.err = NoErr /\ ~Falsy(last.node.res))
                 => last.err = NoErr /\ last.ret = last.node.res
           /\ last.err = NoErr => ~Falsy(last.ret)

\* the node answered an empty object and the call raised
C6_Witness ==
    /\ last.op = "get_transaction_data"
    /\ last.node.err = NoErr /\ last.node.res = "{}"
    /\ last.err.msg = "transaction not found"

\* the entries of the node's list that get_balance is to return
Wanted(list, asset) == SelectSeq(list, LAMBDA b : Falsy(asset) \/ b.denom = asset)

\* C7: get_balance returns, in the node's order, one {asset, amount} entry
\* for each balance of the node's answer when no asset is given, for each
\* balance of that denomination when one is given, and the empty list when
\* there is none.
C7_Balances ==
    (last.op = "get_balance" /\ last.err = NoErr)
        => LET w == Wanted(last.node.list, last.arg2) IN
           /\ Len(last.list) = Len(w)
           /\ \A i \in 1 .. Len(w) :
                 last.list[i] = [asset |-> w[i].denom, amount |-> w[i].amount]

\* two balances reported, one of the asset asked for
C7_Witness ==
    /\ last.op = "get_balance" /\ last.err = NoErr
    /\ last.arg2 = "rune"
    /\ Len(last.node.list) = MaxBalances /\ Len(last.list) = 1

\* C8: get_prefix never raises; with an argument it answers for that
\* argument, without one for the client's network.
C8_GetPrefix ==
    last.op = "get_prefix"
        => /\ last.err = NoErr
           /\ last.ret = PrefixOf(IF Falsy(last.arg) THEN network ELSE last.arg)

\* C9: a cached private key is the key of the stored phrase and a cached
\* address is the address of the stored phrase under the prefix of the stored
\* network.
C9_CacheCoherent ==
    /\ ~Falsy(private_key) => private_key = seed_to_privkey(phrase)
    /\ ~Falsy(address)
          => address = PrefixOf(network) \o "1" \o seed_to_privkey(phrase)

\* C10: the steps of one transfer act on one node-client instance, and the
\* transaction it broadcasts is the one it made, holding its one transfer.
C10_TransferIsolated ==
    \A c \in Calls :
        call[c].pc = "broadcast"
            => /\ call[c].same
               /\ call[c].msg = [owner |-> c, msgs |-> <<call[c].args>>]

====
